---- MODULE Spec2Model ----
(***************************************************************************)
(* Model of src/analyzer/helper.cpp: the three fact emitters               *)
(* (output_decl, output_enum_values, output_struct_relations), the type    *)
(* graph walker collect_nested_structs, the process-wide dedup registry    *)
(* existing_filenames and the mutex that serialises the emitters.          *)
(*                                                                         *)
(* Strings are sequences of character codes, so that concatenation and     *)
(* std::string's ordering are computed, not assumed.                       *)
(***************************************************************************)
EXTENDS Integers, Sequences, FiniteSets, TLC

(* ------------------------------ bounds -------------------------------- *)
NRec == 2          \* record declarations in the translation unit
MaxWrap == 2       \* pointer/array layers around a field's record type
NWorkers == 2      \* extraction threads
MaxCalls == 2      \* emitter calls made in one run of the concurrent model
MaxBits == 3       \* widest integer type of an enum's enumerators, in bits

Records == 1..NRec
Workers == 1..NWorkers

(* ------------------------------ strings ------------------------------- *)
Plus == 43         \* '+', the key separator
Colon == 58        \* ':', between path and line number

\* std::string::empty()
empty(s) == s = <<>>

\* operator< of std::string: lexicographic comparison of the characters
RECURSIVE StrLess(_, _)
StrLess(s, t) ==
  IF t = <<>> THEN FALSE
  ELSE IF s = <<>> THEN TRUE
  ELSE IF Head(s) # Head(t) THEN Head(s) < Head(t)
  ELSE StrLess(Tail(s), Tail(t))

\* operator<<(unsigned): the decimal digits of a line number
RECURSIVE Decimal(_)
Decimal(n) ==
  IF n < 10 THEN <<48 + n>> ELSE Decimal(n \div 10) \o <<48 + (n % 10)>>

\* a mutant of StringSetInsert: the name is appended, as a vector would
StringSetInsertAppend(seq, x) == Append(seq, x)

\* std::set<std::string>::insert: the container keeps its elements unique
\* and in ascending order; it is modelled by the sequence its iteration yields
StringSetInsert(seq, x) ==
  IF \E i \in 1..Len(seq): seq[i] = x THEN seq
  ELSE LET less == SelectSeq(seq, LAMBDA y: StrLess(y, x))
           more == SelectSeq(seq, LAMBDA y: StrLess(x, y))
       IN  less \o <<x>> \o more

(* ------------------------- the type representation -------------------- *)
(* A QualType is a sequence of layers, outermost first, around a base:     *)
(* a record declaration (1..NRec) or 0 for any non-record type.            *)
(* Layers: "ptr" PointerType, "arr" ArrayType, "td" TypedefType (with the  *)
(* alias name), "elab" ElaboratedType.  "td" and "elab" are sugar.         *)
Layer(k, n) == [k |-> k, name |-> n]
QualType(ls, b) == [layers |-> ls, base |-> b]
IsSugar(l) == l.k \in {"td", "elab"}

\* QualType::getCanonicalType: the type with all sugar removed, at every depth
getCanonicalType(qt) == QualType(SelectSeq(qt.layers, LAMBDA l: ~IsSugar(l)), qt.base)

\* the layers left once leading sugar other than kind k has been looked through
RECURSIVE Desugar(_, _)
Desugar(ls, k) ==
  IF ls # <<>> /\ IsSugar(Head(ls)) /\ Head(ls).k # k THEN Desugar(Tail(ls), k) ELSE ls

\* Type::getAs<T>: looks through sugar for a layer of kind k at the top
getAs(qt, k) == LET ls == Desugar(qt.layers, k) IN ls # <<>> /\ Head(ls).k = k
\* the type under the layer getAs<T> found
getInner(qt, k) == QualType(Tail(Desugar(qt.layers, k)), qt.base)
\* the alias name of the TypedefType getAs<TypedefType> found
getDeclName(qt) == Head(Desugar(qt.layers, "td")).name
\* Type::getAs<RecordType>: a record once all sugar is looked through
getAsRecord(qt) == Desugar(qt.layers, "none") = <<>> /\ qt.base # 0

(* ------------------------- the parsed translation unit ---------------- *)
(* record r's name is NameOf(r); identifier order differs from id order    *)
NameOf(r) == IF r = 1 THEN <<98>> ELSE <<97>> \o [i \in 1..((r + 1) % 3) |-> 98]
AliasT == <<116>>                  \* the name of a typedef layer
SrcFile == <<102, 46, 99>>         \* the real path of the source file
OutFile == <<111>>                 \* the output target of most calls
OutFiles == {OutFile, <<112>>}     \* the output targets
Variants == {"named", "anon_alias", "anon", "opaque"}

\* sequences of at most n layers drawn from ks
RECURSIVE LayerSeqs(_, _)
LayerSeqs(n, ks) ==
  IF n = 0 THEN {<<>>}
  ELSE LET shorter == LayerSeqs(n - 1, ks)
       IN  shorter \cup {<<Layer(k, IF k = "td" THEN AliasT ELSE <<>>)>> \o ls :
                           k \in ks, ls \in shorter}
\* the wrappings of a field's record type: up to MaxWrap pointer and array
\* layers, and the ways an alias or an elaborated type meets a pointer
SugarSeqs ==
  LET td == Layer("td", AliasT) el == Layer("elab", <<>>) p == Layer("ptr", <<>>)
  IN  {<<td>>, <<el>>, <<p, td>>, <<td, p>>, <<p, el>>, <<td, el>>}
WrapSeqs == LayerSeqs(MaxWrap, {"ptr", "arr"}) \cup SugarSeqs

\* ascending sequence of the elements of a set of record ids
RECURSIVE Ascending(_)
Ascending(S) ==
  IF S = {} THEN <<>>
  ELSE LET m == CHOOSE x \in S: \A y \in S: x <= y IN <<m>> \o Ascending(S \ {m})

\* The declaration of record r in a unit where record NRec is of the given
\* variant, each record r has one field per member of succ[r] (in id order,
\* each of type wrap around that record) and odd records start with an int.
RecordDecl(r, succ, wrap, variant) ==
  LET special(t) == t = NRec /\ variant # "named"
      fieldType(t) ==
        QualType(wrap \o (IF special(t) /\ variant = "anon_alias"
                          THEN <<Layer("td", NameOf(t))>> ELSE <<>>), t)
      members == Ascending(succ[r])
  IN [name   |-> IF special(r) /\ variant \in {"anon_alias", "anon"}
                 THEN <<>> ELSE NameOf(r),
      anon   |-> IF special(r) /\ variant = "anon_alias" THEN NameOf(r) ELSE <<>>,
      def    |-> ~(special(r) /\ variant = "opaque"),
      fields |-> IF special(r) /\ variant = "opaque" THEN <<>>
                 ELSE (IF r % 2 = 1 THEN <<QualType(<<>>, 0)>> ELSE <<>>)
                      \o [i \in 1..Len(members) |-> fieldType(members[i])],
      file   |-> SrcFile,
      line   |-> 10 * r]

\* llvm::APSInt: the value an enumerator is declared with, as clang stores
\* it: the low `bits` bits of the value and the signedness of the enum's type
APSInt(bits, unsigned, value) ==
  [bits |-> bits, unsigned |-> unsigned, val |-> value % (2 ^ bits)]
\* an EnumConstantDecl: its name, the value written in the source, its APSInt
EnumConstantDecl(name, bits, unsigned, value) ==
  [name |-> name, value |-> value, init |-> APSInt(bits, unsigned, value)]

\* The enum declarations.  Enum 1 is named and begins on the line record 1
\* begins on; enum 2 is unnamed.  The enums from 3 on are named and run
\* through the enumerator types of 1..MaxBits bits, signed and unsigned, with
\* a first enumerator of every value of the type and a second of value 0.
EnumName == <<101>>
EnumIds == {1, 2}
EnumFamily == 3..(2 + 2 * MaxBits * (2 ^ MaxBits))
EnumDecl(e) ==
  LET k        == e - 3
      unsigned == IF e <= 2 THEN e = 2 ELSE k % 2 = 1
      bits     == IF e <= 2 THEN 3 ELSE 1 + ((k \div 2) % MaxBits)
      j        == (k \div (2 * MaxBits)) % (2 ^ bits)
      first    == IF e = 1 THEN -1 ELSE IF e = 2 THEN 7
                  ELSE IF unsigned THEN j ELSE j - 2 ^ (bits - 1)
      second   == IF e = 1 THEN -3 ELSE IF e = 2 THEN 5 ELSE 0
  IN [name |-> IF e = 2 THEN <<>> ELSE EnumName,
      file |-> SrcFile,
      line |-> 10 * e,
      enumerators |-> <<EnumConstantDecl(<<120>>, bits, unsigned, first),
                        EnumConstantDecl(<<121>>, bits, unsigned, second)>>]

VARIABLES
  rd,                 \* the record declarations of the unit (never changes)
  mutex,              \* 0, or the worker that holds the mutex
  existing_filenames, \* the dedup registry: the set of claimed keys
  files,              \* per output target, the tokens appended so far
  ncalls,             \* emitter calls made so far
  pc,                 \* per worker: where it is in its emitter call
  call,               \* per worker: the arguments of its current call
  frame,              \* per worker: the local variables of its current call
  ret,                \* per worker: how its last call ended
  requested,          \* history: the (key, target) pairs emitters were called with
  lost                \* history: the keys whose append failed

vars == <<rd, mutex, existing_filenames, files, ncalls, pc, call, frame, ret,
          requested, lost>>

(* A frame holds the locals of the three emitters under the names the      *)
(* source gives them: name (name / enumName / structName), key_name,        *)
(* nested (the std::set<std::string>, as its iteration order), visited,     *)
(* good (the std::ofstream has no failbit/badbit set); and, for the         *)
(* walker, stack (the collect_nested_structs calls still to be made, the    *)
(* next one first), ncollect (calls made) and expanded (how often each      *)
(* record's field loop was entered).                                        *)
NoFrame ==
  [name |-> <<>>, key_name |-> <<>>, nested |-> <<>>, visited |-> {},
   stack |-> <<>>, good |-> TRUE, failed |-> FALSE, ncollect |-> 0,
   expanded |-> [r \in Records |-> 0]]
NoCall ==
  [fn |-> "none", decl |-> 0, output_file_name |-> <<>>, is_typedef |-> FALSE,
   alias_name |-> <<>>, struct_name |-> <<>>]
NoRet == [status |-> "none", path |-> "none", failed |-> FALSE]

(* ------------------------------ the walker ---------------------------- *)
\* a mutant of getTypedefNameForAnonDecl: the anonymous record's alias is lost
getTypedefNameForAnonDeclNull(r) == <<>>

\* RecordDecl::getTypedefNameForAnonDecl, then getNameAsString: the name of
\* the typedef that names anonymous record r, empty when there is none
getTypedefNameForAnonDecl(r) == rd[r].anon

\* lines 179-183: the name of a record reached without an alias layer
RecordName(r) ==
  IF empty(rd[r].name) THEN getTypedefNameForAnonDecl(r) ELSE rd[r].name

\* lines 158-162: the name of a record reached through the alias aliasName
TypedefRecordName(aliasName, r) ==
  LET name == IF empty(aliasName) THEN rd[r].name ELSE aliasName
  IN  IF empty(name) THEN getTypedefNameForAnonDecl(r) ELSE name

\* a mutant of InsertName: a record already in visited is not named again
InsertNameUnlessVisited(f, r, name) ==
  IF empty(name) \/ r \in f.visited THEN f
  ELSE [f EXCEPT !.nested = StringSetInsert(@, name)]

\* a mutant of InsertName: the name is inserted even when it is empty
InsertNameEvenEmpty(f, r, name) == [f EXCEPT !.nested = StringSetInsert(@, name)]

\* lines 163-164 and 184-185: if (!name.empty()) nested.insert(name)
InsertName(f, r, name) ==
  IF empty(name) THEN f ELSE [f EXCEPT !.nested = StringSetInsert(@, name)]

\* a mutant of VisitedInsert: the guard always lets the walker descend
VisitedInsertAlways(vis, r) == TRUE

\* visited.insert(def).second: TRUE when def was not in visited
VisitedInsert(vis, r) == r \notin vis

\* a mutant of Descend: a record that could not be named is not entered
DescendIfNamed(f, r) ==
  IF rd[r].def /\ VisitedInsert(f.visited, r) /\ ~empty(RecordName(r))
  THEN [f EXCEPT !.visited = @ \cup {r},
                 !.stack = rd[r].fields \o @,
                 !.expanded[r] = @ + 1]
  ELSE f

\* lines 165-170 and 186-191: enter the fields of r's definition, once
Descend(f, r) ==
  IF rd[r].def
  THEN IF VisitedInsert(f.visited, r)
       THEN [f EXCEPT !.visited = @ \cup {r},
                      !.stack = rd[r].fields \o @,
                      !.expanded[r] = @ + 1]
       ELSE f
  ELSE f

\* a mutant of getAsArrayTypeUnsafe: array types are not recognised
getAsArrayTypeNever(qt) == FALSE

\* Type::getAsArrayTypeUnsafe: qt is an array type
getAsArrayTypeUnsafe(qt) == getAs(qt, "arr")

\* One call collect_nested_structs(qt0, nested, visited) in frame f (whose
\* stack no longer holds that call); the calls it makes are left on the stack
collect_nested_structs(f, qt0) ==
  LET qt == getCanonicalType(qt0)
      g  == [f EXCEPT !.ncollect = @ + 1]
  IN  IF getAs(qt, "ptr")
      THEN [g EXCEPT !.stack = <<getInner(qt, "ptr")>> \o @]
      ELSE IF getAsArrayTypeUnsafe(qt)
      THEN [g EXCEPT !.stack = <<getInner(qt, "arr")>> \o @]
      ELSE IF getAs(qt, "elab")
      THEN [g EXCEPT !.stack = <<getInner(qt, "elab")>> \o @]
      ELSE IF getAs(qt, "td")
      THEN LET aliasName == getDeclName(qt)
               underlying == getInner(qt, "td")
           IN  IF getAsRecord(underlying)
               THEN Descend(InsertName(g, underlying.base,
                                       TypedefRecordName(aliasName, underlying.base)),
                            underlying.base)
               ELSE [g EXCEPT !.stack = <<underlying>> \o @]
      ELSE IF getAsRecord(qt)
      THEN Descend(InsertName(g, qt.base, RecordName(qt.base)), qt.base)
      ELSE g

\* lines 233-234 with 135-193: the calls on f's stack, and the calls they
\* make, made one after the other until none is left
RECURSIVE RunWalk(_)
RunWalk(f) ==
  IF f.stack = <<>> THEN f
  ELSE RunWalk(collect_nested_structs([f EXCEPT !.stack = Tail(@)], Head(f.stack)))

(* ------------------------------ declarations ------------------------- *)
(* A declaration handed to an emitter is <<"record", r>> or <<"enum", e>>.  *)
NoDecl == <<"none", 0>>
getNameAsString(d) == IF d[1] = "record" THEN rd[d[2]].name ELSE EnumDecl(d[2]).name
DeclFile(d) == IF d[1] = "record" THEN rd[d[2]].file ELSE EnumDecl(d[2]).file
DeclLine(d) == IF d[1] = "record" THEN rd[d[2]].line ELSE EnumDecl(d[2]).line

\* get_decl_code: the text the lexer returns for the declaration's range;
\* the text itself comes from the external slicer and is named after the decl
get_decl_code(d) == <<123>> \o getNameAsString(d) \o <<125>>

\* lines 61-73, 103-113, 214-224: "<real path>:<line>"
filenameWithLine(d) == DeclFile(d) \o <<Colon>> \o Decimal(DeclLine(d))

\* line 74-75: the key of a declaration fact
DeclKey(filename, name, output_file_name, alias_name) ==
  filename \o <<Plus>> \o name \o <<Plus>> \o output_file_name \o <<Plus>> \o alias_name

\* lines 114 and 225: the key of an enum fact and of a relation fact
NameKey(filename, name, output_file_name) ==
  filename \o <<Plus>> \o name \o <<Plus>> \o output_file_name

(* ------------------------------ output -------------------------------- *)
(* A file is the sequence of tokens appended to it.  A "json" token is the  *)
(* text j.dump() of one fact (with, as a note, the key it was claimed       *)
(* under); an "nl" token is the '\n' std::endl writes.                      *)
Fact(obj, name, body) == [obj |-> obj, name |-> name, body |-> body]
Json(fact, key) == [t |-> "json", fact |-> fact, key |-> key]
Newline == [t |-> "nl", fact |-> Fact("", <<>>, <<>>), key |-> <<>>]

\* lines 52-53, 81-85: {"name", "source", "filename"[, "alias"]}
DeclFact(name, source, filename, is_typedef, alias_name) ==
  Fact("decl", name, <<source, filename, IF is_typedef THEN <<alias_name>> ELSE <<>>>>)

\* EnumConstantDecl::getInitVal
getInitVal(ecd) == ecd.init

\* a mutant of getSExtValue: the bits are zero-extended
getZExtValue(v) == v.val % (2 ^ v.bits)

\* APInt::getSExtValue: the low `bits` bits of the value, sign-extended; the
\* signedness the APSInt carries plays no part
getSExtValue(v) ==
  LET half == 2 ^ (v.bits - 1) low == v.val % (2 * half)
  IN  IF low >= half THEN low - 2 * half ELSE low

\* lines 119-126: {enumName: {enumerator: value, ...}}
EnumFact(enumName, enumerators) ==
  Fact("enum", enumName,
       [i \in 1..Len(enumerators) |->
          <<enumerators[i].name, getSExtValue(getInitVal(enumerators[i]))>>])

\* lines 236-241: {structName: [nested names in the set's order]}
RelationFact(name, nestedSet) == Fact("rel", name, nestedSet)

\* a mutant of find: no key is ever found in the registry
findNothing(key) == FALSE

\* a mutant of find: a key whose append failed is not found, as if the failed
\* append had taken it out of the registry
findUnlessLost(key) == key \in existing_filenames /\ key \notin lost

\* existing_filenames.find(key) != existing_filenames.end()
find(key) == key \in existing_filenames

\* a call that reached its key: the key, the target and the arguments
Request(key, c) == [key |-> key, out |-> c.output_file_name, call |-> c]

\* a mutant of lock_guard: the mutex is taken without waiting for it
lock_guard_nowait(w) == mutex' = w

\* std::lock_guard<std::mutex> lock(mutex): blocks until the mutex is free
lock_guard(w) == mutex = 0 /\ mutex' = w

\* a mutant of lock_scope: the guard's scope ends with the registry check
lock_scope_check_only(w) == mutex' = 0

\* the lock_guard is a local of the function body: after the registry check
\* the mutex stays held, until the function returns
lock_scope(w) == mutex' = mutex

\* a mutant of Return: the function returns without the mutex being released,
\* as a return between a lock() and an unlock() would
ReturnLocked(w, f, path) ==
  /\ mutex' = mutex
  /\ pc' = [pc EXCEPT ![w] = "idle"]
  /\ call' = [call EXCEPT ![w] = NoCall]
  /\ frame' = [frame EXCEPT ![w] = NoFrame]
  /\ ret' = [ret EXCEPT ![w] = [status |-> "normal", path |-> path,
                                 failed |-> f.failed]]

\* the end of an emitter call: ~lock_guard releases the mutex, the call
\* returns normally (the emitters are void and throw nothing of their own);
\* path tells which return it was: "noname", "duplicate" or "emitted"
Return(w, f, path) ==
  /\ mutex' = 0
  /\ pc' = [pc EXCEPT ![w] = "idle"]
  /\ call' = [call EXCEPT ![w] = NoCall]
  /\ frame' = [frame EXCEPT ![w] = NoFrame]
  /\ ret' = [ret EXCEPT ![w] = [status |-> "normal", path |-> path,
                                 failed |-> f.failed]]

\* output_file.open(output_file_name, std::ios_base::app): the stream is good
\* afterwards iff the open succeeded
Open(f, ok) == [f EXCEPT !.good = ok, !.failed = ~ok]

\* output_file << text: appended iff the stream is good and the write succeeds;
\* a failed write sets badbit
WriteFrame(f, ok) == [f EXCEPT !.good = @ /\ ok, !.failed = @ \/ ~ok]
WriteFile(f, ok, out, tok) ==
  IF f.good /\ ok THEN [files EXCEPT ![out] = Append(@, tok)] ELSE files

(* ------------------------- output_struct_relations ------------------- *)
\* line 198
output_struct_relations_lock(w) ==
  /\ pc[w] = "rel_lock"
  /\ lock_guard(w)
  /\ pc' = [pc EXCEPT ![w] = "rel_claim"]
  /\ UNCHANGED <<rd, existing_filenames, files, ncalls, call, frame, ret, requested, lost>>

\* a mutant of ResolveStructName: a record without any name is given one
ResolveStructNameSynth(struct_name, r) ==
  IF ~empty(struct_name) THEN struct_name
  ELSE IF empty(RecordName(r)) THEN <<63>> ELSE RecordName(r)

\* lines 200-209: the explicit name, else the record's, else its alias
ResolveStructName(struct_name, r) ==
  IF empty(struct_name) THEN RecordName(r) ELSE struct_name

\* a mutant of WalkStart: visited outlives the call, so the roots whose facts
\* are in the target are still in it
WalkStartShared(f, r) ==
  LET old == {q \in Records :
                \E i \in 1..Len(files[OutFile]) :
                  /\ files[OutFile][i].fact.obj = "rel"
                  /\ files[OutFile][i].key =
                       NameKey(filenameWithLine(<<"record", q>>),
                               files[OutFile][i].fact.name, OutFile)}
  IN  [f EXCEPT !.nested = <<>>, !.visited = old \cup {r}, !.stack = rd[r].fields,
                !.expanded[r] = @ + 1]

\* lines 230-233: fresh nested and visited sets; the root's fields are walked
WalkStart(f, r) ==
  [f EXCEPT !.nested = <<>>, !.visited = {r}, !.stack = rd[r].fields,
            !.expanded[r] = @ + 1]

\* lines 200-233: resolve the name, claim the key, start the walk
output_struct_relations_claim(w) ==
  /\ pc[w] = "rel_claim"
  /\ LET r   == call[w].decl[2]
         sn  == ResolveStructName(call[w].struct_name, r)
         key == NameKey(filenameWithLine(call[w].decl), sn, call[w].output_file_name)
         f   == [frame[w] EXCEPT !.name = sn, !.key_name = key]
         req == Request(key, call[w])
     IN  IF empty(sn)
         THEN Return(w, frame[w], "noname") /\ UNCHANGED <<existing_filenames, requested>>
         ELSE IF find(key)
         THEN /\ Return(w, frame[w], "duplicate")
              /\ requested' = requested \cup {req}
              /\ UNCHANGED existing_filenames
         ELSE /\ existing_filenames' = existing_filenames \cup {key}
              /\ requested' = requested \cup {req}
              /\ frame' = [frame EXCEPT ![w] = WalkStart(f, r)]
              /\ pc' = [pc EXCEPT ![w] = "rel_walk"]
              /\ lock_scope(w)
              /\ UNCHANGED <<call, ret>>
  /\ UNCHANGED <<rd, files, ncalls, lost>>

\* lines 233-234 and 135-193: the next collect_nested_structs call
output_struct_relations_walk(w) ==
  /\ pc[w] = "rel_walk"
  /\ frame[w].stack # <<>>
  /\ frame' = [frame EXCEPT ![w] =
                 collect_nested_structs([@ EXCEPT !.stack = Tail(@)],
                                        Head(frame[w].stack))]
  /\ UNCHANGED <<rd, mutex, existing_filenames, files, ncalls, pc, call, ret,
                 requested, lost>>

\* lines 236-245: build the fact, open the target, write j.dump()
output_struct_relations_write(w) ==
  /\ pc[w] = "rel_walk"
  /\ frame[w].stack = <<>>
  /\ \E opened \in BOOLEAN, written \in BOOLEAN:
       LET f   == Open(frame[w], opened)
           tok == Json(RelationFact(f.name, f.nested), f.key_name)
       IN  /\ files' = WriteFile(f, written, call[w].output_file_name, tok)
           /\ frame' = [frame EXCEPT ![w] = WriteFrame(f, written)]
           /\ lost' = IF f.good /\ written THEN lost ELSE lost \cup {f.key_name}
  /\ pc' = [pc EXCEPT ![w] = "rel_endl"]
  /\ UNCHANGED <<rd, mutex, existing_filenames, ncalls, call, ret, requested>>

\* lines 245-248: std::endl, flush, close, return
output_struct_relations_endl(w) ==
  /\ pc[w] = "rel_endl"
  /\ files' = WriteFile(frame[w], TRUE, call[w].output_file_name, Newline)
  /\ Return(w, frame[w], "emitted")
  /\ UNCHANGED <<rd, existing_filenames, ncalls, requested, lost>>

(* ------------------------------ output_decl --------------------------- *)
\* line 44
output_decl_lock(w) ==
  /\ pc[w] = "decl_lock"
  /\ lock_guard(w)
  /\ pc' = [pc EXCEPT ![w] = "decl_open"]
  /\ UNCHANGED <<rd, existing_filenames, files, ncalls, call, frame, ret, requested, lost>>

\* lines 46-50: the name, the source text; the target is opened for append
output_decl_open(w) ==
  /\ pc[w] = "decl_open"
  /\ \E opened \in BOOLEAN:
       frame' = [frame EXCEPT ![w] =
                   Open([@ EXCEPT !.name = getNameAsString(call[w].decl)], opened)]
  /\ pc' = [pc EXCEPT ![w] = "decl_claim"]
  /\ UNCHANGED <<rd, mutex, existing_filenames, files, ncalls, call, ret,
                 requested, lost>>

\* lines 51-80: the key is claimed, or the call returns
output_decl_claim(w) ==
  /\ pc[w] = "decl_claim"
  /\ LET key == DeclKey(filenameWithLine(call[w].decl), frame[w].name,
                        call[w].output_file_name, call[w].alias_name)
         req == Request(key, call[w])
     IN  IF ~find(key)
         THEN /\ existing_filenames' = existing_filenames \cup {key}
              /\ requested' = requested \cup {req}
              /\ frame' = [frame EXCEPT ![w].key_name = key]
              /\ pc' = [pc EXCEPT ![w] = "decl_write"]
              /\ lock_scope(w)
              /\ UNCHANGED <<call, ret>>
         ELSE /\ Return(w, frame[w], "duplicate")
              /\ requested' = requested \cup {req}
              /\ UNCHANGED existing_filenames
  /\ UNCHANGED <<rd, files, ncalls, lost>>

\* lines 81-88: the fact is completed and j.dump() written
output_decl_write(w) ==
  /\ pc[w] = "decl_write"
  /\ \E written \in BOOLEAN:
       LET f   == frame[w]
           tok == Json(DeclFact(f.name, get_decl_code(call[w].decl),
                                filenameWithLine(call[w].decl),
                                call[w].is_typedef, call[w].alias_name),
                       f.key_name)
       IN  /\ files' = WriteFile(f, written, call[w].output_file_name, tok)
           /\ frame' = [frame EXCEPT ![w] = WriteFrame(f, written)]
           /\ lost' = IF f.good /\ written THEN lost ELSE lost \cup {f.key_name}
  /\ pc' = [pc EXCEPT ![w] = "decl_endl"]
  /\ UNCHANGED <<rd, mutex, existing_filenames, ncalls, call, ret, requested>>

\* lines 88-91: std::endl, flush, close, return
output_decl_endl(w) ==
  /\ pc[w] = "decl_endl"
  /\ files' = WriteFile(frame[w], TRUE, call[w].output_file_name, Newline)
  /\ Return(w, frame[w], "emitted")
  /\ UNCHANGED <<rd, existing_filenames, ncalls, requested, lost>>

(* --------------------------- output_enum_values ----------------------- *)
\* line 94
output_enum_values_lock(w) ==
  /\ pc[w] = "enum_lock"
  /\ lock_guard(w)
  /\ pc' = [pc EXCEPT ![w] = "enum_claim"]
  /\ UNCHANGED <<rd, existing_filenames, files, ncalls, call, frame, ret, requested, lost>>

\* lines 96-117: an unnamed enum is skipped; the key is claimed, or the call returns
output_enum_values_claim(w) ==
  /\ pc[w] = "enum_claim"
  /\ LET enumName == getNameAsString(call[w].decl)
         key == NameKey(filenameWithLine(call[w].decl), enumName,
                        call[w].output_file_name)
         req == Request(key, call[w])
     IN  IF empty(enumName)
         THEN Return(w, frame[w], "noname") /\ UNCHANGED <<existing_filenames, requested>>
         ELSE IF find(key)
         THEN /\ Return(w, frame[w], "duplicate")
              /\ requested' = requested \cup {req}
              /\ UNCHANGED existing_filenames
         ELSE /\ existing_filenames' = existing_filenames \cup {key}
              /\ requested' = requested \cup {req}
              /\ frame' = [frame EXCEPT ![w].name = enumName, ![w].key_name = key]
              /\ pc' = [pc EXCEPT ![w] = "enum_write"]
              /\ lock_scope(w)
              /\ UNCHANGED <<call, ret>>
  /\ UNCHANGED <<rd, files, ncalls, lost>>

\* lines 119-130: the values are collected, the target opened, j.dump() written
output_enum_values_write(w) ==
  /\ pc[w] = "enum_write"
  /\ \E opened \in BOOLEAN, written \in BOOLEAN:
       LET f   == Open(frame[w], opened)
           tok == Json(EnumFact(f.name, EnumDecl(call[w].decl[2]).enumerators),
                       f.key_name)
       IN  /\ files' = WriteFile(f, written, call[w].output_file_name, tok)
           /\ frame' = [frame EXCEPT ![w] = WriteFrame(f, written)]
           /\ lost' = IF f.good /\ written THEN lost ELSE lost \cup {f.key_name}
  /\ pc' = [pc EXCEPT ![w] = "enum_endl"]
  /\ UNCHANGED <<rd, mutex, existing_filenames, ncalls, call, ret, requested>>

\* lines 130-133: std::endl, flush, close, return
output_enum_values_endl(w) ==
  /\ pc[w] = "enum_endl"
  /\ files' = WriteFile(frame[w], TRUE, call[w].output_file_name, Newline)
  /\ Return(w, frame[w], "emitted")
  /\ UNCHANGED <<rd, existing_filenames, ncalls, requested, lost>>

(* --------------------- the visitor calling the emitters --------------- *)
Invoke(w, c, entry) ==
  /\ pc[w] = "idle"
  /\ ncalls < MaxCalls
  /\ ncalls' = ncalls + 1
  /\ call' = [call EXCEPT ![w] = c]
  /\ pc' = [pc EXCEPT ![w] = entry]
  /\ ret' = [ret EXCEPT ![w] = NoRet]
  /\ UNCHANGED <<rd, mutex, existing_filenames, files, frame, requested, lost>>

\* output_decl(decl, output_file_name, is_typedef, alias_name), lines 41-42
call_output_decl(w) ==
  \E f \in OutFiles, ty \in BOOLEAN, al \in {<<>>, AliasT}:
    /\ ty => al = AliasT
    /\ f # OutFile => al = <<>>
    /\ Invoke(w, [NoCall EXCEPT !.fn = "output_decl", !.decl = <<"enum", 1>>,
                             !.output_file_name = f, !.is_typedef = ty,
                             !.alias_name = al], "decl_lock")

\* output_enum_values(decl, output_file_name), line 93
call_output_enum_values(w) ==
  \E e \in EnumIds:
    Invoke(w, [NoCall EXCEPT !.fn = "output_enum_values", !.decl = <<"enum", e>>,
                             !.output_file_name = OutFile], "enum_lock")

\* output_struct_relations(decl, output_file_name, struct_name), lines 195-197
call_output_struct_relations(w) ==
  \E r \in Records, sn \in {<<>>, EnumName}:
    /\ rd[r].def
    /\ sn # <<>> => r \in {1, NRec}
    /\ Invoke(w, [NoCall EXCEPT !.fn = "output_struct_relations",
                                !.decl = <<"record", r>>,
                                !.output_file_name = OutFile,
                                !.struct_name = sn],
              "rel_lock")

(* ------------------------------ specifications ------------------------ *)
Idle ==
  /\ mutex = 0
  /\ existing_filenames = {}
  /\ files = [o \in OutFiles |-> <<>>]
  /\ ncalls = 0
  /\ pc = [w \in Workers |-> "idle"]
  /\ call = [w \in Workers |-> NoCall]
  /\ frame = [w \in Workers |-> NoFrame]
  /\ ret = [w \in Workers |-> NoRet]
  /\ requested = {}
  /\ lost = {}

\* the concurrent model: record r refers to record r+1 (the last to the first)
\* through a pointer; the last record is anonymous and has no alias
Init ==
  /\ rd = [r \in Records |->
             RecordDecl(r, [q \in Records |-> {(q % NRec) + 1}],
                        <<Layer("ptr", <<>>)>>, "anon")]
  /\ Idle

Step(w) ==
  \/ output_struct_relations_lock(w)
  \/ output_struct_relations_claim(w)
  \/ output_struct_relations_walk(w)
  \/ output_struct_relations_write(w)
  \/ output_struct_relations_endl(w)
  \/ output_decl_lock(w)
  \/ output_decl_open(w)
  \/ output_decl_claim(w)
  \/ output_decl_write(w)
  \/ output_decl_endl(w)
  \/ output_enum_values_lock(w)
  \/ output_enum_values_claim(w)
  \/ output_enum_values_write(w)
  \/ output_enum_values_endl(w)

Next ==
  \E w \in Workers:
    \/ call_output_decl(w)
    \/ call_output_enum_values(w)
    \/ call_output_struct_relations(w)
    \/ Step(w)

Spec == Init /\ [][Next]_vars

\* the calls of the fair model: a declaration, the named and the unnamed
\* enum, and every record under its own name, all for the same target, so
\* that calls end at every return: no name, duplicate key, fact appended
call_emitter(w) ==
  \/ Invoke(w, [NoCall EXCEPT !.fn = "output_decl", !.decl = <<"enum", 1>>,
                              !.output_file_name = OutFile], "decl_lock")
  \/ \E e \in EnumIds:
       Invoke(w, [NoCall EXCEPT !.fn = "output_enum_values", !.decl = <<"enum", e>>,
                                !.output_file_name = OutFile], "enum_lock")
  \/ \E r \in Records:
       /\ rd[r].def
       /\ Invoke(w, [NoCall EXCEPT !.fn = "output_struct_relations",
                                   !.decl = <<"record", r>>,
                                   !.output_file_name = OutFile], "rel_lock")

NextFair == \E w \in Workers: call_emitter(w) \/ Step(w)

\* the concurrent model with fair scheduling: a worker thread that can take
\* a step of its emitter call is not kept from taking one forever
SpecFair == Init /\ [][NextFair]_vars /\ \A w \in Workers: WF_vars(Step(w))

\* the walker model: one call of output_struct_relations, on any root of any
\* unit of the family: every graph over the records, with every wrapping of
\* the field types when all records are named, and with direct, pointer and
\* array fields for every other variant of the last record
InitWalk ==
  /\ \E succ \in [Records -> SUBSET Records], wrap \in WrapSeqs,
        variant \in Variants, root \in Records:
       /\ variant # "named" => wrap \in LayerSeqs(1, {"ptr", "arr"})
       /\ rd = [r \in Records |-> RecordDecl(r, succ, wrap, variant)]
       /\ rd[root].def
       /\ call = [w \in Workers |->
                    IF w = 1
                    THEN [NoCall EXCEPT !.fn = "output_struct_relations",
                                        !.decl = <<"record", root>>,
                                        !.output_file_name = OutFile]
                    ELSE NoCall]
  /\ mutex = 0
  /\ existing_filenames = {}
  /\ files = [o \in OutFiles |-> <<>>]
  /\ ncalls = 1
  /\ pc = [w \in Workers |-> IF w = 1 THEN "rel_lock" ELSE "idle"]
  /\ frame = [w \in Workers |-> NoFrame]
  /\ ret = [w \in Workers |-> NoRet]
  /\ requested = {}
  /\ lost = {}

NextWalk ==
  \E w \in Workers:
    \/ output_struct_relations_lock(w)
    \/ output_struct_relations_claim(w)
    \/ output_struct_relations_walk(w)
    \/ output_struct_relations_write(w)
    \/ output_struct_relations_endl(w)

SpecWalk == InitWalk /\ [][NextWalk]_vars

\* the enum model: one call of output_enum_values, on any enum of the family
InitEnum ==
  /\ rd = [r \in Records |->
             RecordDecl(r, [q \in Records |-> {(q % NRec) + 1}],
                        <<Layer("ptr", <<>>)>>, "anon")]
  /\ \E e \in EnumFamily:
       call = [w \in Workers |->
                 IF w = 1
                 THEN [NoCall EXCEPT !.fn = "output_enum_values",
                                     !.decl = <<"enum", e>>,
                                     !.output_file_name = OutFile]
                 ELSE NoCall]
  /\ mutex = 0
  /\ existing_filenames = {}
  /\ files = [o \in OutFiles |-> <<>>]
  /\ ncalls = 1
  /\ pc = [w \in Workers |-> IF w = 1 THEN "enum_lock" ELSE "idle"]
  /\ frame = [w \in Workers |-> NoFrame]
  /\ ret = [w \in Workers |-> NoRet]
  /\ requested = {}
  /\ lost = {}

NextEnum ==
  \E w \in Workers:
    \/ output_enum_values_lock(w)
    \/ output_enum_values_claim(w)
    \/ output_enum_values_write(w)
    \/ output_enum_values_endl(w)

SpecEnum == InitEnum /\ [][NextEnum]_vars

(* ====================================================================== *)
(* Properties of output_struct_relations and the walker (SpecWalk)         *)
(* ====================================================================== *)
Range(seq) == {seq[i] : i \in 1..Len(seq)}

\* worker w has written its relation fact and is about to finish the line
Emitting(w) == pc[w] = "rel_endl" /\ ~frame[w].failed
Root(w) == call[w].decl[2]
\* the fact worker w appended last
EmittedFact(w) ==
  LET file == files[call[w].output_file_name] IN file[Len(file)].fact

\* the name a record can be reported under: its own, else that of its alias
RefName(r) == IF rd[r].name # <<>> THEN rd[r].name ELSE rd[r].anon
\* the records the fields of r refer to, whatever wraps them
FieldBases(r) == {rd[r].fields[i].base : i \in 1..Len(rd[r].fields)} \ {0}
\* the records reachable from the fields of root through fields of definitions
RECURSIVE Closure(_)
Closure(S) ==
  LET T == S \cup UNION {FieldBases(r) : r \in {x \in S : rd[x].def}}
  IN  IF T = S THEN S ELSE Closure(T)
Reach(root) == Closure(FieldBases(root))
NamesOf(S) == {RefName(r) : r \in S} \ {<<>>}

\* r refers to records only through fields of type pointer-to-r
SelfRefOnly(r) ==
  /\ FieldBases(r) = {r}
  /\ \A i \in 1..Len(rd[r].fields):
       rd[r].fields[i].base = r =>
         getCanonicalType(rd[r].fields[i]).layers = <<Layer("ptr", <<>>)>>

\* C3 as stated: a record A whose only record-referencing field is a pointer
\* to A is reported as {"A": []}: its own name is not in its nested list
C3_SelfReferenceEmpty ==
  \A w \in Workers:
    Emitting(w) /\ SelfRefOnly(Root(w)) =>
      EmittedFact(w) = RelationFact(RefName(Root(w)), <<>>)

\* C3 amended: such a record is reported as {"A": ["A"]}: the nested list
\* holds its own name, once, and nothing else
C3_SelfReferenceNamesItself ==
  \A w \in Workers:
    Emitting(w) /\ SelfRefOnly(Root(w)) =>
      EmittedFact(w) = RelationFact(RefName(Root(w)), <<RefName(Root(w))>>)

C3_Witness ==
  \E w \in Workers: Emitting(w) /\ SelfRefOnly(Root(w)) /\ frame[w].ncollect >= 2

\* the collect_nested_structs calls a walk can make when every record is
\* entered once: one per field and one more per pointer or array layer
RECURSIVE SumSeq(_)
SumSeq(q) == IF q = <<>> THEN 0 ELSE Head(q) + SumSeq(Tail(q))
FieldCalls(r) ==
  SumSeq([i \in 1..Len(rd[r].fields) |->
            1 + Len(getCanonicalType(rd[r].fields[i]).layers)])
TypeMeasure == SumSeq([r \in 1..NRec |-> FieldCalls(r)])

\* C4: the walk ends: no record's fields are entered twice in one call, the
\* number of collect_nested_structs calls is bounded by the size of the
\* unit's types, and a walk that is not over can always take its next step
C4_WalkTerminates ==
  \A w \in Workers:
    pc[w] \in {"rel_walk", "rel_endl"} =>
      /\ \A r \in Records: frame[w].expanded[r] <= 1
      /\ frame[w].ncollect <= TypeMeasure
      /\ pc[w] = "rel_walk" =>
           ENABLED (output_struct_relations_walk(w) \/ output_struct_relations_write(w))

\* a walk of two records that refer to each other has ended
C4_Witness ==
  \E w \in Workers: pc[w] = "rel_endl" /\ \E r \in Records \ {Root(w)}:
    /\ r \in FieldBases(Root(w)) /\ Root(w) \in FieldBases(r)
    /\ Root(w) \in FieldBases(Root(w))
    /\ frame[w].expanded[r] = 1 /\ frame[w].expanded[Root(w)] = 1

\* C5: the emitted list holds the name of every nameable record reachable
\* from the root's fields
C5_ReachabilityComplete ==
  \A w \in Workers:
    Emitting(w) => NamesOf(Reach(Root(w))) \subseteq Range(EmittedFact(w).body)

\* A{B* b} and B{A* a}: the fact for the root names both records
C5_Witness ==
  \E w \in Workers: Emitting(w) /\ \E r \in Records \ {Root(w)}:
    /\ FieldBases(Root(w)) = {r} /\ FieldBases(r) = {Root(w)}
    /\ rd[r].name # <<>>
    /\ {rd[r].name, rd[Root(w)].name} \subseteq Range(EmittedFact(w).body)

\* field i of r has a type that is an alias of a record with another name
AliasOfNamedRecord(r, i) ==
  LET qt == rd[r].fields[i]
  IN  /\ Len(qt.layers) = 1 /\ qt.layers[1].k = "td" /\ qt.base # 0
      /\ rd[qt.base].name # <<>> /\ rd[qt.base].name # qt.layers[1].name

\* C6 as stated: a field whose type is an alias of a record that has a
\* different name of its own adds the alias name to the nested set
C6_AliasPriority ==
  \A w \in Workers:
    Emitting(w) =>
      \A i \in 1..Len(rd[Root(w)].fields):
        AliasOfNamedRecord(Root(w), i) =>
          rd[Root(w)].fields[i].layers[1].name \in Range(EmittedFact(w).body)

\* field i of r refers to an anonymous record that a typedef names
AnonAliasField(r, i) ==
  LET b == rd[r].fields[i].base
  IN  b # 0 /\ rd[b].name = <<>> /\ rd[b].anon # <<>>

\* C7: a field of an anonymous record type named by an alias contributes the
\* alias name; the list never holds an empty name
C7_AnonymousAliasName ==
  \A w \in Workers:
    Emitting(w) =>
      /\ \A i \in 1..Len(rd[Root(w)].fields):
           AnonAliasField(Root(w), i) =>
             rd[rd[Root(w)].fields[i].base].anon \in Range(EmittedFact(w).body)
      /\ <<>> \notin Range(EmittedFact(w).body)

C7_Witness ==
  \E w \in Workers:
    /\ Emitting(w)
    /\ \E i \in 1..Len(rd[Root(w)].fields): AnonAliasField(Root(w), i)

\* qt is the type of a field: a record type under pointer and array layers
\* only, at least one
Wrapped(qt) ==
  /\ qt.base # 0 /\ qt.layers # <<>>
  /\ \A i \in 1..Len(qt.layers): qt.layers[i].k \in {"ptr", "arr"}
  /\ \E r \in Records: \E i \in 1..Len(rd[r].fields): rd[r].fields[i] = qt

\* C8: wherever the walk meets a field whose type is a record type under
\* pointer and array layers, it ends with the nested names and the entered
\* records it would end with had the field been declared with the record
\* type itself
C8_WrapTransparency ==
  \A w \in Workers:
    (pc[w] = "rel_walk" /\ frame[w].stack # <<>> /\ Wrapped(Head(frame[w].stack))) =>
      LET direct == QualType(<<>>, Head(frame[w].stack).base)
          a == RunWalk(frame[w])
          b == RunWalk([frame[w] EXCEPT !.stack = <<direct>> \o Tail(@)])
      IN  a.nested = b.nested /\ a.visited = b.visited /\ a.expanded = b.expanded

\* the walk is about to resolve an array of pointers to (or a pointer to an
\* array of) a record it has not entered yet
C8_Witness ==
  \E w \in Workers:
    /\ pc[w] = "rel_walk" /\ frame[w].stack # <<>>
    /\ LET qt == Head(frame[w].stack)
       IN  /\ Wrapped(qt) /\ Len(qt.layers) = 2
           /\ qt.layers[1].k # qt.layers[2].k
           /\ qt.base \notin frame[w].visited
           /\ RefName(qt.base) # <<>>

\* C9: the nested list of every relation fact in a file is in strictly
\* ascending lexicographic order (so it has no duplicates)
C9_SortedNoDuplicates ==
  \A o \in OutFiles: \A i \in 1..Len(files[o]):
    files[o][i].fact.obj = "rel" =>
      LET body == files[o][i].fact.body
      IN  \A j \in 1..Len(body): \A k \in 1..Len(body):
            j < k => StrLess(body[j], body[k])

\* a fact whose first-met name is not its first name, one of them met twice
C9_Witness ==
  \E w \in Workers:
    /\ Emitting(w)
    /\ Len(EmittedFact(w).body) >= 2
    /\ LET first == CHOOSE i \in 1..Len(rd[Root(w)].fields):
                      rd[Root(w)].fields[i].base # 0
       IN  RefName(rd[Root(w)].fields[first].base) = EmittedFact(w).body[2]
    /\ frame[w].ncollect > Cardinality(Reach(Root(w))) + 1

\* C16: a reachable record without a name and without an alias adds no
\* entry (the list holds the names of the nameable reachable records and
\* nothing else), its fields are entered once, and the records its fields
\* refer to are in the list
C16_UnnameableTraversed ==
  \A w \in Workers:
    Emitting(w) =>
      /\ Range(EmittedFact(w).body) = NamesOf(Reach(Root(w)))
      /\ \A r \in Reach(Root(w)):
           (RefName(r) = <<>> /\ rd[r].def) =>
             /\ frame[w].expanded[r] = 1
             /\ NamesOf(FieldBases(r)) \subseteq Range(EmittedFact(w).body)

\* the root's only record field is of an unnameable record, whose field
\* refers back to the root: the root's name is in the list
C16_Witness ==
  \E w \in Workers:
    /\ Emitting(w)
    /\ \E r \in Records:
         /\ FieldBases(Root(w)) = {r} /\ r # Root(w)
         /\ RefName(r) = <<>> /\ rd[r].def
         /\ Root(w) \in FieldBases(r)
         /\ RefName(Root(w)) \in Range(EmittedFact(w).body)

(* ====================================================================== *)
(* Properties of the emitters under concurrent workers (Spec)              *)
(* ====================================================================== *)
\* the positions of the "json" tokens in file o that were claimed under key k
LinesOf(o, k) == {i \in 1..Len(files[o]) : files[o][i].t = "json" /\ files[o][i].key = k}
\* a worker has claimed k and has not yet written its fact
InFlight(k) ==
  \E w \in Workers:
    pc[w] \in {"rel_walk", "decl_write", "enum_write"} /\ frame[w].key_name = k
AllLines(k) == {<<o, i>> \in OutFiles \X (1..(2 * MaxCalls)) : i \in LinesOf(o, k)}

\* C1: every key an emitter was called with is in the registry, and (unless
\* its append failed) has exactly one fact in the files, in a target it was
\* emitted for; no key ever has a second fact, however often it is emitted
C1_ExactlyOnce ==
  /\ {q.key : q \in requested} = existing_filenames
  /\ \A o \in OutFiles: \A i \in 1..Len(files[o]):
       files[o][i].t = "json" => files[o][i].key \in existing_filenames
  /\ \A k \in existing_filenames:
       /\ Cardinality(AllLines(k)) <= 1
       /\ (k \notin lost /\ ~InFlight(k)) =>
            \E q \in requested:
              q.key = k /\ Cardinality(LinesOf(q.out, k)) = 1

\* a call has returned at the duplicate-key check although no append had
\* failed: the key has one fact and the files hold nothing else
C1_Witness ==
  /\ \E w \in Workers: ret[w].path = "duplicate"
  /\ \A w \in Workers: pc[w] = "idle"
  /\ lost = {} /\ Cardinality(existing_filenames) = 1
  /\ \E o \in OutFiles: Len(files[o]) = 2

\* file o holds whole lines: each fact is followed by its newline, except a
\* last fact whose writer is between the two writes
WholeLines(o) ==
  \A i \in 1..Len(files[o]):
    /\ files[o][i].t = "nl" => i > 1 /\ files[o][i - 1].t = "json"
    /\ files[o][i].t = "json" =>
         IF i < Len(files[o]) THEN files[o][i + 1].t = "nl"
         ELSE \E w \in Workers:
                /\ pc[w] \in {"rel_endl", "decl_endl", "enum_endl"}
                /\ frame[w].key_name = files[o][i].key
                /\ call[w].output_file_name = o

\* C2: under every interleaving of the workers each file holds whole lines
\* of one fact each; and once the workers are done (no append having
\* failed), a file that all the calls were made for holds exactly one line
\* for each key emitted
C2_ConcurrentSafety ==
  /\ \A o \in OutFiles: WholeLines(o)
  /\ \A o \in OutFiles:
       ((\A w \in Workers: pc[w] = "idle") /\ lost = {}
          /\ (\A q \in requested: q.out = o)) =>
         /\ Len(files[o]) = 2 * Cardinality(existing_filenames)
         /\ \A k \in existing_filenames: Cardinality(LinesOf(o, k)) = 1

\* a worker waits for the mutex with the call another worker is in the
\* middle of writing the line for
C2_Witness ==
  \E w \in Workers, v \in Workers:
    /\ w # v
    /\ pc[w] \in {"rel_endl", "decl_endl", "enum_endl"} /\ ~frame[w].failed
    /\ pc[v] \in {"rel_lock", "decl_lock", "enum_lock"}
    /\ call[v] = call[w]
    /\ Len(files[call[w].output_file_name]) >= 1

\* C10 as stated: a call during which opening or writing the target failed
\* does not return normally
C10_FailureSurfaced ==
  \A w \in Workers: ret[w].failed => ret[w].status # "normal"

\* worker w is past its lock_guard and has not returned
Critical(w) == pc[w] \notin {"idle", "rel_lock", "decl_lock", "enum_lock"}
\* worker w has inserted its key and has not finished its append
Claimed(w) ==
  pc[w] \in {"rel_walk", "rel_endl", "decl_write", "decl_endl", "enum_write", "enum_endl"}
Waiting(w) == pc[w] \in {"rel_lock", "decl_lock", "enum_lock"}

\* C11: a worker between its lock_guard and its return holds the mutex, and
\* while a worker has claimed a key and not finished its append no other
\* worker is at a registry check or a write
C11_SingleCriticalSection ==
  /\ \A w \in Workers: Critical(w) => mutex = w
  /\ \A w \in Workers, v \in Workers: (w # v /\ Claimed(w)) => ~Critical(v)

\* a worker waits for the mutex while another has claimed a key and has yet
\* to write its fact
C11_Witness ==
  \E w \in Workers, v \in Workers:
    w # v /\ pc[w] \in {"rel_walk", "decl_write", "enum_write"} /\ Waiting(v)

Quiescent == \A w \in Workers: pc[w] = "idle"
FactsIn(o) == {files[o][i].fact : i \in {j \in 1..Len(files[o]) : files[o][j].t = "json"}}

\* the nested names a walk of r's fields yields when it starts with nothing
\* but r in its visited set
FreshWalk(r) ==
  RunWalk([NoFrame EXCEPT !.visited = {r}, !.stack = rd[r].fields]).nested

\* the fact a call with arguments c writes when its key is not in the registry
FactOf(c) ==
  IF c.fn = "output_decl"
  THEN DeclFact(getNameAsString(c.decl), get_decl_code(c.decl),
                filenameWithLine(c.decl), c.is_typedef, c.alias_name)
  ELSE IF c.fn = "output_enum_values"
  THEN EnumFact(getNameAsString(c.decl), EnumDecl(c.decl[2]).enumerators)
  ELSE RelationFact(ResolveStructName(c.struct_name, c.decl[2]), FreshWalk(c.decl[2]))

\* C12 as stated: the facts a target ends up with do not depend on the order
\* of the calls.  The fact a call writes depends on its arguments only, so
\* this says: once all calls have returned (no append having failed), the
\* fact of every call is in its target, whichever call came first
C12_OrderInsensitive ==
  (Quiescent /\ lost = {}) => \A q \in requested: FactOf(q.call) \in FactsIn(q.out)

\* the call has no explicit name, and its record or enum no name and no alias
Unresolvable(c) ==
  \/ /\ c.fn = "output_struct_relations"
     /\ c.struct_name = <<>>
     /\ rd[c.decl[2]].name = <<>> /\ rd[c.decl[2]].anon = <<>>
  \/ /\ c.fn = "output_enum_values"
     /\ EnumDecl(c.decl[2]).name = <<>>

\* C13: no step of a call whose name cannot be resolved changes the registry
\* or a target, and the call returns on the no-name path
C13_UnresolvableNoOp ==
  [][\A w \in Workers:
       (Unresolvable(call[w]) /\ pc'[w] # pc[w]) =>
         /\ existing_filenames' = existing_filenames
         /\ files' = files
         /\ pc'[w] = "idle" => ret'[w].path = "noname"]_vars

\* a call for an unnamed declaration has returned, after another call had
\* emitted its fact
C13_Witness ==
  \E w \in Workers, v \in Workers:
    /\ w # v /\ pc[w] = "idle" /\ ret[w].path = "noname"
    /\ ret[v].path = "emitted" /\ ~ret[v].failed
    /\ Cardinality(existing_filenames) = 1 /\ Len(files[OutFile]) = 2

\* the root whose relation fact a token is, if it is one of q's
FactOfRoot(tok, q) ==
  /\ tok.t = "json" /\ tok.fact.obj = "rel"
  /\ tok.key = NameKey(filenameWithLine(<<"record", q>>), tok.fact.name, OutFile)

\* C15: whatever was emitted before, the nested list written for a root is
\* the list a walk with a fresh visited set yields, and it holds the name of
\* every nameable record reachable from the root
C15_TraversalIndependent ==
  \A w \in Workers:
    Emitting(w) =>
      /\ EmittedFact(w).body = FreshWalk(Root(w))
      /\ NamesOf(Reach(Root(w))) \subseteq Range(EmittedFact(w).body)

\* a root is written after the fact of another root that reaches the same
\* records
C15_Witness ==
  \E w \in Workers:
    /\ Emitting(w) /\ Len(files[OutFile]) = 3
    /\ \E q \in Records \ {Root(w)}:
         /\ FactOfRoot(files[OutFile][1], q)
         /\ Reach(q) \cap Reach(Root(w)) # {}

\* C17: a key whose append failed stays in the registry, no worker is about
\* to append for it again, and no target holds a fact for it
C17_NoRetry ==
  \A k \in lost:
    /\ k \in existing_filenames
    /\ ~InFlight(k)
    /\ AllLines(k) = {}

\* after a failed append, a second call with the same key has returned at
\* the duplicate check
C17_Witness ==
  /\ Quiescent
  /\ Cardinality(existing_filenames) = 1 /\ lost = existing_filenames
  /\ \E w \in Workers: ret[w].path = "duplicate"

\* what identifies the fact of a call: the emitter, the origin location, the
\* logical name, the target and (for declarations) the alias qualifier
Identity(q) ==
  <<q.call.fn, filenameWithLine(q.call.decl), FactOf(q.call).name, q.out,
    IF q.call.fn = "output_decl" THEN q.call.alias_name ELSE <<>>>>

\* C18 as stated: calls for different facts never get equal keys
C18_KeyInjective ==
  \A q1 \in requested, q2 \in requested:
    q1.key = q2.key => Identity(q1) = Identity(q2)

\* C20: a worker that is not in a call does not hold the mutex, and under
\* fair scheduling every call returns: a worker in a call, waiting for the
\* mutex or past it, is eventually out of it
C20_LockReleasedProgress ==
  /\ [](\A w \in Workers: pc[w] = "idle" => mutex # w)
  /\ \A w \in Workers: (pc[w] # "idle") ~> (pc[w] = "idle")

\* all the calls have been made, every worker has made one, and all have
\* returned
C20_Witness ==
  /\ Quiescent /\ mutex = 0 /\ ncalls = MaxCalls
  /\ \A w \in Workers: ret[w].status = "normal"
  /\ \E w \in Workers, v \in Workers:
       ret[w].path = "noname" /\ ret[v].path \in {"duplicate", "emitted"}

(* ====================================================================== *)
(* Properties of output_enum_values (SpecEnum)                             *)
(* ====================================================================== *)
\* worker w has written its enum fact and is about to finish the line
EmittingEnum(w) == pc[w] = "enum_endl" /\ ~frame[w].failed
Enumerators(w) == EnumDecl(call[w].decl[2]).enumerators

\* C14: every enumerator declared with a negative value is written into the
\* enum fact with that value
C14_SignPreserved ==
  \A w \in Workers:
    EmittingEnum(w) =>
      \A i \in 1..Len(Enumerators(w)):
        Enumerators(w)[i].value < 0 =>
          EmittedFact(w).body[i] = <<Enumerators(w)[i].name, Enumerators(w)[i].value>>

\* an enum whose first enumerator is declared -1, in a type of two bits or
\* more, has been written
C14_Witness ==
  \E w \in Workers:
    /\ EmittingEnum(w)
    /\ Enumerators(w)[1].value = -1 /\ Enumerators(w)[1].init.bits >= 2

\* C19 as stated: every enumerator of an unsigned type is written into the
\* enum fact with the non-negative value it was declared with, also when the
\* top bit of its type is set
C19_UnsignedExact ==
  \A w \in Workers:
    EmittingEnum(w) =>
      \A i \in 1..Len(Enumerators(w)):
        Enumerators(w)[i].init.unsigned =>
          EmittedFact(w).body[i] = <<Enumerators(w)[i].name, Enumerators(w)[i].value>>

====
